---- MODULE Spec2Model ----
(***************************************************************************)
(* ResumeWise, server_fastapi: the candidate screening pipeline.           *)
(*                                                                         *)
(* One POST /api/screen request is followed from the route through         *)
(* ScreeningController.screen_candidate, extract_text_from_file and        *)
(* call_llm_screening (the retry loop against the Gemini endpoint).        *)
(*                                                                         *)
(* Texts are sequences of tokens.  Data that comes from outside (request   *)
(* texts, file contents, response bodies, numbers rendered into a message) *)
(* is spelled one character per token; the fixed fragments of the code's   *)
(* own messages are kept as one token each.  None of the fixed fragments   *)
(* contains the characters "503" or ends/starts with a part of them next   *)
(* to spelled data, so the substring test of line 132 is exact on this     *)
(* representation.                                                         *)
(***************************************************************************)
EXTENDS Integers, Sequences, FiniteSets, TLC

VARIABLES
    GEMINI_API_KEY,        \* settings.GEMINI_API_KEY, read-only after start-up
    pc,                    \* where the request's task is
    req,                   \* the route's parameters as received
    resume_text,           \* screen_candidate's local (parameter, reassigned)
    job_description_text,  \* screen_candidate's local (parameter, reassigned)
    attempt,               \* call_llm_screening's loop variable
    backoff_time,          \* call_llm_screening's local
    calls,                 \* number of client.post calls made
    sleeps,                \* the asyncio.sleep durations, in order
    n503,                  \* how many of the posts were answered with HTTP 503
    last,                  \* what the post of the current pass got from the endpoint
    returned,              \* the ScreeningResult call_llm_screening returned
    raised,                \* the exception call_llm_screening raised
    response,              \* what screen_candidate gave its caller
    jwt,                   \* request.cookies.get("jwt") of the request
    extractions,           \* how often each side's file was extracted
    clients,               \* the httpx.AsyncClient objects that are open
    tasks,                 \* concurrent invocations of call_llm_screening
    db_up,                 \* whether MongoDB answers
    users,                 \* the documents of the users collection
    signups,               \* the signup requests being served
    logins                 \* the login requests being served

vars == <<GEMINI_API_KEY, pc, req, resume_text, job_description_text, attempt,
          backoff_time, calls, sleeps, n503, last, returned, raised,
          response, jwt, extractions, clients, tasks, db_up, users, signups,
          logins>>

\* state of the other entry points, untouched by a screening request
concVars == <<tasks>>

authVars == <<db_up, users, signups, logins>>

llmVars == <<attempt, backoff_time, calls, sleeps, n503, last,
             returned, raised>>

----------------------------------------------------------------------------
(* Python values *)

\* Optional[str]: None, or a string
None == [some |-> FALSE, v |-> <<>>]

Some(s) == [some |-> TRUE, v |-> s]

\* bool(x) of an Optional[str]: None and "" are falsy
Truthy(t) == t.some /\ t.v # <<>>

Whitespace == {" ", "\n"}

RECURSIVE lstrip(_)
lstrip(s) ==
    IF s # <<>> /\ Head(s) \in Whitespace THEN lstrip(Tail(s)) ELSE s

RECURSIVE rstrip(_)
rstrip(s) ==
    IF s # <<>> /\ s[Len(s)] \in Whitespace
    THEN rstrip(SubSeq(s, 1, Len(s) - 1))
    ELSE s

\* str.strip()
strip(s) == rstrip(lstrip(s))

\* "\n".join(parts)
RECURSIVE join(_)
join(parts) ==
    IF parts = <<>> THEN <<>>
    ELSE IF Len(parts) = 1 THEN parts[1]
    ELSE parts[1] \o <<"\n">> \o join(Tail(parts))

\* [p for p in parts if p]
RECURSIVE nonEmptyParts(_)
nonEmptyParts(parts) ==
    IF parts = <<>> THEN <<>>
    ELSE IF Head(parts) # <<>>
         THEN <<Head(parts)>> \o nonEmptyParts(Tail(parts))
         ELSE nonEmptyParts(Tail(parts))

Digit(d) == CASE d = 0 -> "0" [] d = 1 -> "1" [] d = 2 -> "2" [] d = 3 -> "3"
              [] d = 4 -> "4" [] d = 5 -> "5" [] d = 6 -> "6" [] d = 7 -> "7"
              [] d = 8 -> "8" [] d = 9 -> "9"

RECURSIVE natStr(_)
natStr(n) == IF n < 10 THEN <<Digit(n)>> ELSE natStr(n \div 10) \o <<Digit(n % 10)>>

\* str(n) / repr(n) of an int
intStr(n) == IF n < 0 THEN <<"-">> \o natStr(0 - n) ELSE natStr(n)

\* "503" in s
Contains503(s) ==
    \E i \in 1..(Len(s) - 2) : s[i] = "5" /\ s[i + 1] = "0" /\ s[i + 2] = "3"

\* Exceptions: the class, the HTTP status of an HTTPException (0 otherwise),
\* and str(e) (the detail of an HTTPException)
Exc(type, msg) == [type |-> type, status |-> 0, msg |-> msg]

HTTPException(status_code, detail) ==
    [type |-> "HTTPException", status |-> status_code, msg |-> detail]

NoExc == [type |-> "none", status |-> 0, msg |-> <<>>]

\* httpx.TimeoutException and its subclasses
IsTimeoutException(e) == e.type = "TimeoutException"

\* asyncio.CancelledError, raised at an await when the task is cancelled
CancelledError == Exc("CancelledError", <<>>)

\* every class caught by "except Exception": CancelledError derives from
\* BaseException and is not among them
IsException(e) == e.type \notin {"none", "CancelledError"}

----------------------------------------------------------------------------
(* app/utils/document_parser.py *)

PDF == "application/pdf"

DOCX == "application/vnd.openxmlformats-officedocument.wordprocessingml.document"

MSWORD == "application/msword"

PLAIN == "text/plain"

\* A file is its declared content type (<<>>-like "" when the upload has
\* none), the format its bytes really have, and the texts they hold: the
\* pages of a PDF, the paragraphs of a DOCX, the lines of a UTF-8 text.
File(ct, fmt, parts) == [content_type |-> ct, format |-> fmt, parts |-> parts]

NoFile == [content_type |-> "-", format |-> "-", parts |-> <<>>]

Extracted(text) == [ok |-> TRUE, text |-> text, exc |-> NoExc]

ExtractFailed(e) == [ok |-> FALSE, text |-> <<>>, exc |-> e]

extract_text_from_pdf(file) ==
    IF file.format = "pdf"
    THEN Extracted(strip(join(nonEmptyParts(file.parts))))
    ELSE ExtractFailed(Exc("Exception",
            <<"Failed to extract text from PDF: ", "EOF marker not found">>))

extract_text_from_docx(file) ==
    IF file.format = "docx"
    THEN Extracted(strip(join(nonEmptyParts(file.parts))))
    ELSE ExtractFailed(Exc("Exception",
            <<"Failed to extract text from DOCX: ", "File is not a zip file">>))

\* file_content.decode("utf-8").strip()
decode_plain(file) ==
    IF file.format = "utf8"
    THEN Extracted(strip(join(file.parts)))
    ELSE ExtractFailed(Exc("UnicodeDecodeError",
            <<"'utf-8' codec can't decode byte: invalid start byte">>))

\* an extractor that reads every upload as text, whatever it is
extract_text_from_file_lenient(file, mime_type) ==
    Extracted(strip(join(file.parts)))

\* utils/document_parser.py 65-92
extract_text_from_file(file, mime_type) ==
    IF mime_type = PDF THEN extract_text_from_pdf(file)
    ELSE IF mime_type \in {DOCX, MSWORD} THEN extract_text_from_docx(file)
    ELSE IF mime_type = PLAIN THEN decode_plain(file)
    ELSE ExtractFailed(Exc("Exception", <<"Unsupported file format: ", mime_type>>))

\* upload.content_type or "text/plain"
content_type_or_plain(file) ==
    IF file.content_type = "" THEN PLAIN ELSE file.content_type

----------------------------------------------------------------------------
(* app/models/screening.py *)

Fields == {"match_score_percent", "fit_summary", "critical_missing_skills",
           "technical_skills_matched", "soft_skills_matched",
           "extracted_data", "skill_breakdown"}

\* the model's fields in declaration order
FieldOrder == <<"match_score_percent", "fit_summary", "critical_missing_skills",
                "technical_skills_matched", "soft_skills_matched",
                "extracted_data", "skill_breakdown">>

\* Field(...): no default, the field is required
RequiredFields == {"match_score_percent", "fit_summary", "extracted_data",
                   "skill_breakdown"}

\* Field(default_factory=list)
DefaultFields == {"critical_missing_skills", "technical_skills_matched",
                  "soft_skills_matched"}

\* ge=0
score_ge == 0

\* le=100
score_le == 100

\* A ScreeningResult: its score and the fields that took their default
Result(score, filled) == [match_score_percent |-> score, default_filled |-> filled]

NoResult == [match_score_percent |-> -1, default_filled |-> {}]

\* the validation errors of ScreeningResult(**d), in field order; d is the
\* set of keys present and the value under match_score_percent
MissingError(f) ==
    <<"\n", f, "\n  Field required [type=missing, input_value={...}, input_type=dict]">>

RangeError(kind, score) ==
    <<"\n", "match_score_percent", "\n  Input should be ", kind,
      " [input_value=">> \o intStr(score) \o <<", input_type=int]">>

FieldErrors(f, d) ==
    IF f \notin d.present
    THEN IF f \in RequiredFields THEN <<MissingError(f)>> ELSE <<>>
    ELSE IF f = "match_score_percent" /\ d.score < score_ge
         THEN <<RangeError("greater than or equal to 0", d.score)>>
    ELSE IF f = "match_score_percent" /\ d.score > score_le
         THEN <<RangeError("less than or equal to 100", d.score)>>
    ELSE <<>>

RECURSIVE ValidationErrors(_, _)
ValidationErrors(i, d) ==
    IF i > Len(FieldOrder) THEN <<>>
    ELSE FieldErrors(FieldOrder[i], d) \o ValidationErrors(i + 1, d)

RECURSIVE concat(_)
concat(ss) == IF ss = <<>> THEN <<>> ELSE Head(ss) \o concat(Tail(ss))

\* str(pydantic.ValidationError)
ValidationErrorStr(errs) ==
    intStr(Len(errs)) \o <<" validation error for ScreeningResult">> \o concat(errs)

Validated(result) == [ok |-> TRUE, result |-> result, exc |-> NoExc]

Invalid(e) == [ok |-> FALSE, result |-> NoResult, exc |-> e]

\* ScreeningResult(**result_dict)
ScreeningResult(d) ==
    LET errs == ValidationErrors(1, d)
    IN  IF errs = <<>>
        THEN Validated(Result(d.score, DefaultFields \ d.present))
        ELSE Invalid(Exc("ValidationError", ValidationErrorStr(errs)))

----------------------------------------------------------------------------
(* app/controllers/screening_controller.py: call_llm_screening *)

\* a retry budget one too large
MAX_RETRIES_six == 5 + 1

MAX_RETRIES == 5

INITIAL_BACKOFF == 1

\* What a post can get from the endpoint.  kind: "http" (a response with a
\* status; text is response.text, doc what response.json() finds),
\* "timeout" (httpx.TimeoutException), "error" (another httpx exception whose
\* message is text).
Http(status, text, doc) == [kind |-> "http", status |-> status, text |-> text, doc |-> doc]

NoDoc == [form |-> "-", pos |-> 0, present |-> {}, score |-> 0]

Timeout == [kind |-> "timeout", status |-> 0, text |-> <<>>, doc |-> NoDoc]

HttpxError(msg) == [kind |-> "error", status |-> 0, text |-> msg, doc |-> NoDoc]

NoReply == [kind |-> "-", status |-> 0, text |-> <<>>, doc |-> NoDoc]

\* The body of a 200 answer.  form: "not_json" (response.json() fails at
\* character pos), "no_candidates" (no or empty "candidates"), "bad_shape"
\* (the first candidate has no content), "bad_text" (json.loads of the
\* candidate's text fails at character pos), "payload" (the text is a JSON
\* object with the keys present and the value score for match_score_percent).
Doc(form, pos, present, score) ==
    [form |-> form, pos |-> pos, present |-> present, score |-> score]

\* str(json.JSONDecodeError)
JSONDecodeErrorStr(pos) ==
    <<"Expecting value: line 1 column ">> \o intStr(pos + 1)
        \o <<" (char ">> \o intStr(pos) \o <<")">>

\* what one pass of the loop body ends in
Return(result) == [act |-> "return", result |-> result, exc |-> NoExc, backoff |-> 0]

Raise(e) == [act |-> "raise", result |-> NoResult, exc |-> e, backoff |-> 0]

SleepContinue(t) == [act |-> "sleep", result |-> NoResult, exc |-> NoExc, backoff |-> t]

RECURSIVE pow2(_)
pow2(n) == IF n = 0 THEN 1 ELSE 2 * pow2(n - 1)

\* a backoff that grows linearly instead of doubling
backoff_linear(att) == (att + 1) * INITIAL_BACKOFF

\* (2 ** attempt) * INITIAL_BACKOFF
backoff(att) == pow2(att) * INITIAL_BACKOFF

\* lines 96-107: the success path
on_200(doc) ==
    IF doc.form = "not_json"
    THEN Raise(Exc("JSONDecodeError", JSONDecodeErrorStr(doc.pos)))
    ELSE IF doc.form = "no_candidates"
    THEN Raise(Exc("Exception", <<"LLM response format was unexpected.">>))
    ELSE IF doc.form = "bad_shape"
    THEN Raise(Exc("KeyError", <<"'content'">>))
    ELSE IF doc.form = "bad_text"
    THEN Raise(Exc("JSONDecodeError", JSONDecodeErrorStr(doc.pos)))
    ELSE LET v == ScreeningResult(doc)
         IN  IF v.ok THEN Return(v.result) ELSE Raise(v.exc)

\* a 503 retried whatever the attempt
retry_503_always(status, att) == status = 503

\* a 503 retried one time too few
retry_503_one_short(status, att) == status = 503 /\ att < MAX_RETRIES - 2

\* lines 109-115: a 503 is retried while attempts remain
retry_503(status, att) == status = 503 /\ att < MAX_RETRIES - 1

\* lines 86-121: the body of the try
try_body(r, att) ==
    IF r.kind = "timeout" THEN Raise(Exc("TimeoutException", <<"timed out">>))
    ELSE IF r.kind = "error" THEN Raise(Exc("HTTPError", r.text))
    ELSE IF r.status = 200 THEN on_200(r.doc)
    ELSE IF retry_503(r.status, att) THEN SleepContinue(backoff(att))
    ELSE Raise(Exc("Exception", <<"LLM API request failed: ">> \o r.text))

\* a timeout handler that gives up at the first timeout
except_timeout_no_retry(att) ==
    Raise(Exc("Exception", <<"LLM API request timed out after multiple retries.">>))

\* lines 123-129: except httpx.TimeoutException
except_timeout(att) ==
    IF att < MAX_RETRIES - 1
    THEN SleepContinue(backoff(att))
    ELSE Raise(Exc("Exception", <<"LLM API request timed out after multiple retries.">>))

\* lines 131-137: except Exception as e
except_exception(e, att) ==
    IF att < MAX_RETRIES - 1 /\ Contains503(e.msg)
    THEN SleepContinue(backoff(att))
    ELSE Raise(e)

\* lines 123-137: the except clauses, for what the try body ended in
except_clauses(out, att) ==
    IF out.act # "raise" THEN out
    ELSE IF IsTimeoutException(out.exc) THEN except_timeout(att)
    ELSE IF IsException(out.exc) THEN except_exception(out.exc, att)
    ELSE out

\* lines 85-137: one pass of the loop body for the reply r
loop_body(r, att) == except_clauses(try_body(r, att), att)

----------------------------------------------------------------------------
(* The inputs the model draws from *)

\* request texts: absent, empty, blank, and a real text
Texts == {None, Some(<<>>), Some(<<" ">>), Some(<<"c", "v">>)}

\* uploads: no file, and files of every declared type, well-formed with
\* text, well-formed without text, and malformed for the declared type
Files ==
    { NoFile,
      File(PDF, "pdf", << <<"a">>, <<>>, <<"b", " ">> >>),
      File(PDF, "binary", <<>>),
      File(MSWORD, "docx", << <<" ">>, <<>> >>),
      File(PLAIN, "binary", <<>>),
      File("", "utf8", << <<" ">>, <<>> >>),
      File("image/png", "binary", <<>>) }

\* settings.GEMINI_API_KEY: unset (empty) or set
ApiKeys == {<<>>, <<"k">>}

\* response.text of an error answer
Bodies == {<<>>, <<"5", "0", "0", "3">>, <<"e", "r", "r", " ", "5", "0", "3">>}

\* statuses other than 200
ErrorStatuses == {400, 500, 503}

\* match_score_percent values the endpoint may send
Scores == {0 - 1, 0, 100, 503}

\* the keys a payload may carry: all of them, or all but one
KeySets == {Fields} \cup {Fields \ {f} : f \in Fields}

\* where a JSON parse may fail
ErrorPositions == {0, 503}

Docs ==
    {Doc("not_json", p, {}, 0) : p \in ErrorPositions}
    \cup {Doc("bad_text", p, {}, 0) : p \in ErrorPositions}
    \cup {Doc("no_candidates", 0, {}, 0), Doc("bad_shape", 0, {}, 0)}
    \cup {Doc("payload", 0, ks, sc) : ks \in KeySets, sc \in Scores}

\* messages of httpx exceptions other than timeouts
HttpxMessages == {<<"All connection attempts failed">>,
                  <<"5", "0", "3", " Service Unavailable">>}

Replies ==
    {Timeout}
    \cup {HttpxError(m) : m \in HttpxMessages}
    \cup {Http(200, <<>>, d) : d \in Docs}
    \cup {Http(st, b, NoDoc) : st \in ErrorStatuses, b \in Bodies}

----------------------------------------------------------------------------
(* app/controllers/screening_controller.py: ScreeningController.screen_candidate *)

NoRequest == [resume |-> NoFile, jobDescription |-> NoFile,
              resumeText |-> None, jobDescriptionText |-> None]

NoResponse == [status |-> 0, detail |-> <<>>, result |-> NoResult]

Ok(result) == [status |-> 200, detail |-> <<>>, result |-> result]

Failed(e) == [status |-> e.status, detail |-> e.msg, result |-> NoResult]

MissingResume == HTTPException(400, <<"Missing resume input (file or text).">>)

MissingJobDescription ==
    HTTPException(400, <<"Missing job description input (file or text).">>)

\* a handler without the "except HTTPException: raise" clause
handler_all_500(e) ==
    HTTPException(500,
        <<"Internal server error during screening process: ">> \o e.msg)

\* lines 202-209: what leaves screen_candidate for an exception e of its body
handler(e) ==
    IF e.type = "HTTPException" THEN e
    ELSE HTTPException(500,
            <<"Internal server error during screening process: ">> \o e.msg)

\* not text or not text.strip()
Blank(t) == ~Truthy(t) \/ strip(t.v) = <<>>

\* request.cookies.get("jwt"): no cookie, a token that does not verify, an
\* expired token, a token in force
NoToken == [kind |-> "none", email |-> ""]

Tokens == {NoToken, [kind |-> "garbage", email |-> ""],
           [kind |-> "expired", email |-> "hr@corp.io"],
           [kind |-> "valid", email |-> "hr@corp.io"]}

NoPayload == [some |-> FALSE, email |-> ""]

\* app/utils/auth.py, decode_token: the payload of a token in force, None otherwise
decode_token(token) ==
    IF token.kind = "valid" THEN [some |-> TRUE, email |-> token.email] ELSE NoPayload

\* middleware/auth_middleware.py 15-31
get_current_user_from_cookie(token) ==
    IF token.kind = "none" THEN NoPayload ELSE decode_token(token)

Unauthorized == HTTPException(401, <<"Unauthorized. No valid token found.">>)

\* a dependency that lets every request through
require_auth_open(token) == NoExc

\* middleware/auth_middleware.py 34-56: the exception require_auth raises,
\* NoExc when it returns the payload
require_auth(token) ==
    IF ~get_current_user_from_cookie(token).some THEN Unauthorized ELSE NoExc

\* a check of the key that never fires
key_missing_never(key) == FALSE

\* line 53: not settings.GEMINI_API_KEY
key_missing(key) == key = <<>>

\* an async with that leaves the client open
aexit_leak(n) == n

\* line 86: leaving "async with httpx.AsyncClient(...)" closes the client
aexit(n) == n - 1

NoExtractions == [resume |-> 0, job_description |-> 0]

NoTasks == <<>>

NoSignups == <<>>

NoLogins == <<>>

\* the variables of one screening request, before it arrives
InitScreening ==
    /\ pc = "idle"
    /\ req = NoRequest
    /\ resume_text = None
    /\ job_description_text = None
    /\ attempt = 0
    /\ backoff_time = 0
    /\ calls = 0
    /\ sleeps = <<>>
    /\ n503 = 0
    /\ last = NoReply
    /\ returned = NoResult
    /\ raised = NoExc
    /\ response = NoResponse
    /\ jwt = NoToken
    /\ extractions = NoExtractions
    /\ clients = 0

Init ==
    /\ GEMINI_API_KEY \in ApiKeys
    /\ InitScreening
    /\ tasks = NoTasks
    /\ db_up = TRUE
    /\ users = {}
    /\ signups = NoSignups
    /\ logins = NoLogins

\* routes/screening_routes.py: POST /api/screen; the dependency require_auth
\* is resolved first, and screen_candidate is called only when it returns
Request ==
    /\ pc = "idle"
    /\ \E rf \in Files, jf \in Files, rt \in Texts, jt \in Texts, tk \in Tokens :
          /\ req' = [resume |-> rf, jobDescription |-> jf,
                     resumeText |-> rt, jobDescriptionText |-> jt]
          /\ jwt' = tk
          /\ IF require_auth(tk) # NoExc
             THEN /\ response' = Failed(require_auth(tk))
                  /\ pc' = "unauthorized"
                  /\ UNCHANGED <<resume_text, job_description_text>>
             ELSE /\ resume_text' = rt
                  /\ job_description_text' = jt
                  /\ pc' = "resume"
                  /\ UNCHANGED response
    /\ UNCHANGED <<GEMINI_API_KEY, extractions, clients>>
    /\ UNCHANGED llmVars
    /\ UNCHANGED concVars
    /\ UNCHANGED authVars

\* lines 168-174
ProcessResume ==
    /\ pc = "resume"
    /\ IF req.resume # NoFile /\ ~Truthy(resume_text)
       THEN LET x == extract_text_from_file(req.resume,
                                            content_type_or_plain(req.resume))
            IN  /\ extractions' = [extractions EXCEPT !.resume = @ + 1]
                /\ IF x.ok
                   THEN /\ resume_text' = Some(x.text)
                        /\ pc' = "job_description"
                        /\ UNCHANGED response
                   ELSE /\ response' = Failed(handler(x.exc))
                        /\ pc' = "done"
                        /\ UNCHANGED resume_text
       ELSE /\ pc' = "job_description"
            /\ UNCHANGED <<resume_text, response, extractions>>
    /\ UNCHANGED <<GEMINI_API_KEY, req, job_description_text, jwt, clients>>
    /\ UNCHANGED llmVars
    /\ UNCHANGED concVars
    /\ UNCHANGED authVars

\* lines 176-182
ProcessJobDescription ==
    /\ pc = "job_description"
    /\ IF req.jobDescription # NoFile /\ ~Truthy(job_description_text)
       THEN LET x == extract_text_from_file(req.jobDescription,
                                            content_type_or_plain(req.jobDescription))
            IN  /\ extractions' = [extractions EXCEPT !.job_description = @ + 1]
                /\ IF x.ok
                   THEN /\ job_description_text' = Some(x.text)
                        /\ pc' = "validate"
                        /\ UNCHANGED response
                   ELSE /\ response' = Failed(handler(x.exc))
                        /\ pc' = "done"
                        /\ UNCHANGED job_description_text
       ELSE /\ pc' = "validate"
            /\ UNCHANGED <<job_description_text, response, extractions>>
    /\ UNCHANGED <<GEMINI_API_KEY, req, resume_text, jwt, clients>>
    /\ UNCHANGED llmVars
    /\ UNCHANGED concVars
    /\ UNCHANGED authVars

\* a validation that forgets the job description
validate_inputs_resume_only(rt, jt) ==
    IF Blank(rt) THEN MissingResume ELSE NoExc

\* a validation that looks at the job description first
validate_inputs_jd_first(rt, jt) ==
    IF Blank(jt) THEN MissingJobDescription
    ELSE IF Blank(rt) THEN MissingResume
    ELSE NoExc

\* lines 184-195: the exception the validation raises, NoExc when it passes
validate_inputs(rt, jt) ==
    IF Blank(rt) THEN MissingResume
    ELSE IF Blank(jt) THEN MissingJobDescription
    ELSE NoExc

\* lines 184-198 and 53-54: validate, then enter call_llm_screening
ValidateAndInvoke ==
    /\ pc = "validate"
    /\ LET e == validate_inputs(resume_text, job_description_text)
       IN  IF e # NoExc
           THEN /\ response' = Failed(handler(e))
                /\ pc' = "done"
                /\ UNCHANGED raised
           ELSE IF key_missing(GEMINI_API_KEY)
           THEN LET k == Exc("Exception",
                             <<"GEMINI_API_KEY environment variable not set.">>)
                IN  /\ raised' = k
                    /\ response' = Failed(handler(k))
                    /\ pc' = "done"
           ELSE /\ pc' = "post"
                /\ UNCHANGED <<raised, response>>
    /\ UNCHANGED <<GEMINI_API_KEY, req, resume_text, job_description_text>>
    /\ UNCHANGED <<attempt, backoff_time, calls, sleeps, n503, last, returned>>
    /\ UNCHANGED <<jwt, extractions, clients>>
    /\ UNCHANGED concVars
    /\ UNCHANGED authVars

\* lines 86-93: a client is opened and the request is sent
Post ==
    /\ pc = "post"
    /\ clients' = clients + 1
    /\ calls' = calls + 1
    /\ pc' = "await"
    /\ UNCHANGED <<GEMINI_API_KEY, req, resume_text, job_description_text>>
    /\ UNCHANGED <<attempt, backoff_time, sleeps, n503, last, returned, raised>>
    /\ UNCHANGED <<response, jwt, extractions>>
    /\ UNCHANGED concVars
    /\ UNCHANGED authVars

\* what a pass of the loop body that ended in out does to the invocation:
\* it returns, it raises (through the handler of screen_candidate, lines
\* 202-209, which no BaseException enters), or it goes to sleep
Finish(out) ==
    IF out.act = "return"
    THEN /\ returned' = out.result
         /\ response' = Ok(out.result)
         /\ pc' = "done"
         /\ UNCHANGED <<raised, backoff_time>>
    ELSE IF out.act = "raise"
    THEN /\ raised' = out.exc
         /\ IF IsException(out.exc)
            THEN response' = Failed(handler(out.exc)) /\ pc' = "done"
            ELSE UNCHANGED response /\ pc' = "cancelled"
         /\ UNCHANGED <<returned, backoff_time>>
    ELSE /\ backoff_time' = out.backoff
         /\ pc' = "sleep"
         /\ UNCHANGED <<returned, raised, response>>

\* lines 89-137: the post is answered and the loop body runs to its return,
\* its raise or its sleep; only the sleep of line 114 is inside the
\* "async with", every other way leaves it
Reply ==
    /\ pc = "await"
    /\ \E r \in Replies :
          /\ last' = r
          /\ n503' = IF r.kind = "http" /\ r.status = 503 THEN n503 + 1 ELSE n503
          /\ Finish(loop_body(r, attempt))
          /\ clients' = IF try_body(r, attempt).act = "sleep"
                        THEN clients
                        ELSE aexit(clients)
    /\ UNCHANGED <<GEMINI_API_KEY, req, resume_text, job_description_text>>
    /\ UNCHANGED <<attempt, sleeps, calls>>
    /\ UNCHANGED <<jwt, extractions>>
    /\ UNCHANGED concVars
    /\ UNCHANGED authVars

\* the for statement of line 84 taking its next value; line 139 when it has none
next_attempt(att) == att + 1

\* lines 114, 127, 135 and 84: the sleep ends, then continue (which leaves
\* the "async with" when the sleep was the one of line 114)
Sleep ==
    /\ pc = "sleep"
    /\ sleeps' = Append(sleeps, backoff_time)
    /\ attempt' = next_attempt(attempt)
    /\ last' = NoReply
    /\ clients' = IF clients > 0 THEN aexit(clients) ELSE clients
    /\ IF next_attempt(attempt) < MAX_RETRIES
       THEN /\ pc' = "post"
            /\ UNCHANGED <<raised, response>>
       ELSE LET m == Exc("Exception", <<"Maximum retry attempts reached for LLM API.">>)
            IN  /\ raised' = m
                /\ response' = Failed(handler(m))
                /\ pc' = "done"
    /\ UNCHANGED <<GEMINI_API_KEY, req, resume_text, job_description_text>>
    /\ UNCHANGED <<backoff_time, calls, n503, returned>>
    /\ UNCHANGED <<jwt, extractions>>
    /\ UNCHANGED concVars
    /\ UNCHANGED authVars

\* The task is cancelled while it waits in client.post or in asyncio.sleep:
\* CancelledError is raised at that await.  Inside the try (the post, the
\* sleep of line 114) it meets the except clauses and leaves the
\* "async with"; in the sleeps of lines 127 and 135 it leaves the handler.
Cancel ==
    /\ pc \in {"await", "sleep"}
    /\ Finish(IF clients > 0
              THEN except_clauses(Raise(CancelledError), attempt)
              ELSE Raise(CancelledError))
    /\ clients' = IF clients > 0 THEN aexit(clients) ELSE clients
    /\ UNCHANGED <<GEMINI_API_KEY, req, resume_text, job_description_text>>
    /\ UNCHANGED <<attempt, sleeps, calls, n503, last>>
    /\ UNCHANGED <<jwt, extractions>>
    /\ UNCHANGED concVars
    /\ UNCHANGED authVars

Next == Request \/ ProcessResume \/ ProcessJobDescription \/ ValidateAndInvoke
        \/ Post \/ Reply \/ Sleep \/ Cancel

Spec == Init /\ [][Next]_vars

----------------------------------------------------------------------------
(* Properties of call_llm_screening *)

Is503(r) == r.kind = "http" /\ r.status = 503

Is200(r) == r.kind = "http" /\ r.status = 200

RECURSIVE Sum(_)
Sum(q) == IF q = <<>> THEN 0 ELSE Head(q) + Sum(Tail(q))

IsPrefix(p, q) == Len(p) <= Len(q) /\ SubSeq(q, 1, Len(p)) = p

\* C1: whatever the endpoint does, one execution of call_llm_screening makes
\* at most 5 outbound POST requests.
C1_AtMostFivePosts == calls <= 5

C1_Witness == pc = "done" /\ calls = 5

\* C2: when every call so far was answered with HTTP 503, the execution has
\* not ended before the 5th call, ends with the 5th, ends by raising (no
\* result is returned), and no 6th call is made.
C2_All503FailsAfterFive ==
    (calls > 0 /\ n503 = calls) =>
        /\ calls <= 5
        /\ (pc = "done") <=> (calls = 5)
        /\ pc = "done" => (raised # NoExc /\ returned = NoResult
                            /\ response.status \notin {0, 200})

C2_Witness == pc = "done" /\ n503 = 5 /\ calls = 5 /\ raised # NoExc

\* the messages by which the code names the exhaustion of the retries
ExhaustionMessages ==
    { <<"LLM API request timed out after multiple retries.">>,
      <<"Maximum retry attempts reached for LLM API.">> }

\* the errors one attempt raises for a status that is never retried
SingleAttemptErrors ==
    { Exc("Exception", <<"LLM API request failed: ">> \o b) : b \in Bodies }

\* C3: when the 5th attempt also ends in HTTP 503 or a timeout, the error
\* raised names the exhaustion of the retries and is not an error a single
\* attempt raises for a non-retryable status.
C3_ExhaustionIsNamed ==
    (pc = "done" /\ calls = 5 /\ (Is503(last) \/ last.kind = "timeout")) =>
        /\ raised.msg \in ExhaustionMessages
        /\ raised \notin SingleAttemptErrors

\* C4: one backoff sleep separates consecutive attempts, the sleep before
\* attempt n (0-indexed, n >= 1) is 2^(n-1) seconds, none follows the last
\* attempt, so the sleeps are a prefix of <<1, 2, 4, 8>>; four 503 answers
\* and then a well-formed 200 give the result after 15 seconds of sleep.
C4_BackoffSchedule ==
    /\ IsPrefix(sleeps, <<1, 2, 4, 8>>)
    /\ \A n \in 1..Len(sleeps) : sleeps[n] = 2 ^ (n - 1)
    /\ pc = "post" => Len(sleeps) = calls
    /\ pc = "await" => Len(sleeps) = calls - 1
    /\ pc = "sleep" => Len(sleeps) = calls - 1
    /\ (pc = "done" /\ calls > 0) => Len(sleeps) = calls - 1
    /\ (pc = "done" /\ calls = 5 /\ n503 = 4 /\ Is200(last)) =>
          /\ Sum(sleeps) = 15
          /\ (last.doc.form = "payload" /\ last.doc.present = Fields
                /\ last.doc.score \in 0..100) =>
                    /\ returned = Result(last.doc.score, {})
                    /\ response.status = 200

C4_Witness ==
    /\ pc = "done" /\ calls = 5 /\ n503 = 4 /\ Is200(last)
    /\ returned # NoResult /\ sleeps = <<1, 2, 4, 8>>

\* C5: an attempt answered with a status other than 200 and 503 ends the
\* invocation at once, with the response body in the error: no sleep and no
\* further call follow, whatever the body.
C5_OtherStatusFailsAtOnce ==
    (last.kind = "http" /\ last.status \notin {200, 503}) =>
        /\ pc = "done"
        /\ raised = Exc("Exception", <<"LLM API request failed: ">> \o last.text)

\* a 200 body from which no ScreeningResult can be made
Unusable(doc) == doc.form # "payload" \/ ~ScreeningResult(doc).ok

\* C6: an attempt answered with 200 and a body that cannot be turned into a
\* ScreeningResult ends the invocation in failure, without a further call.
C6_MalformedNeverRetried ==
    (Is200(last) /\ Unusable(last.doc)) =>
        /\ pc = "done"
        /\ raised # NoExc
        /\ returned = NoResult

\* C7: a 200 answer whose payload lacks one of the seven fields never gives
\* a ScreeningResult (with the missing field filled by a default).
C7_MissingFieldFails ==
    (Is200(last) /\ last.doc.form = "payload" /\ last.doc.present # Fields) =>
        /\ returned = NoResult
        /\ response.status # 200

----------------------------------------------------------------------------
(* Properties of screen_candidate *)

\* a text that is there and not empty after trimming
NonEmptyTrimmed(t) == t.some /\ \E i \in 1..Len(t.v) : t.v[i] \notin Whitespace

\* C8: no outbound call is made unless the resume text and the job
\* description text are both non-empty after trimming; a request with no
\* file and no text on either side fails with the missing-input error
\* (400) and no call.
C8_NoCallWithoutBothTexts ==
    /\ (calls > 0 \/ pc \in {"post", "sleep"}) =>
          (NonEmptyTrimmed(resume_text) /\ NonEmptyTrimmed(job_description_text))
    /\ (pc = "done" /\ req = NoRequest) =>
          /\ response.status = 400
          /\ response.detail \in {MissingResume.msg, MissingJobDescription.msg}
          /\ calls = 0

C8_Witness ==
    /\ calls > 0
    /\ ~req.resumeText.some /\ req.resume # NoFile
    /\ req.jobDescriptionText.some

\* the extraction the code runs for a file
Extraction(file) == extract_text_from_file(file, content_type_or_plain(file))

\* a side as C9 calls it missing: neither file nor text, or no text and a
\* file that extracts to the empty text
SideMissing(file, text) ==
    ~text.some /\ (file = NoFile \/ (Extraction(file).ok /\ Extraction(file).text = <<>>))

ResumeMissing == SideMissing(req.resume, req.resumeText)

JobDescriptionMissing == SideMissing(req.jobDescription, req.jobDescriptionText)

\* a side whose file the request extracts, and the extraction raises
ExtractionRaises(file, text) ==
    file # NoFile /\ ~Truthy(text) /\ ~Extraction(file).ok

ExtractionExc ==
    IF ExtractionRaises(req.resume, req.resumeText)
    THEN Extraction(req.resume).exc
    ELSE IF ExtractionRaises(req.jobDescription, req.jobDescriptionText)
    THEN Extraction(req.jobDescription).exc
    ELSE NoExc

\* C10: a request ends with a result, with a 400 (a missing input, and only
\* that) or with a 500; every exception of the extractor or of
\* call_llm_screening gives the 500, with the exception's message in the
\* detail, and no validation failure gives a 500.
C10_TwoFailureCategories ==
    pc = "done" =>
        /\ response.status \in {200, 400, 500}
        /\ (response.status = 200) <=> (returned # NoResult)
        /\ response.status = 200 => response.result = returned
        /\ response.status = 400 =>
              /\ response.detail \in {MissingResume.msg, MissingJobDescription.msg}
              /\ raised = NoExc /\ ExtractionExc = NoExc /\ calls = 0
              /\ ~NonEmptyTrimmed(resume_text) \/ ~NonEmptyTrimmed(job_description_text)
        /\ (response.status = 500) <=> (raised # NoExc \/ ExtractionExc # NoExc)
        /\ response.status = 500 =>
              LET cause == IF ExtractionExc # NoExc THEN ExtractionExc ELSE raised
              IN  response.detail =
                    <<"Internal server error during screening process: ">> \o cause.msg

C10_Witness ==
    /\ pc = "done" /\ response.status = 500
    /\ raised = NoExc /\ ExtractionExc.type = "UnicodeDecodeError"

\* the request has entered screen_candidate
Entered == pc \notin {"idle", "unauthorized"}

\* the call of the model endpoint is under way or was made
ReachedEndpoint == calls > 0 \/ pc \in {"post", "await", "sleep"}

BothSupplied(file, text) == file # NoFile /\ NonEmptyTrimmed(text)

NeitherSupplied(file, text) == file = NoFile /\ ~NonEmptyTrimmed(text)

\* C11: a request that supplies both a file and a text for the resume or for
\* the job description, like one that supplies neither, is rejected: it
\* never reaches the model endpoint and gets no result.
C11_ExactlyOnePerSide ==
    (/\ Entered
     /\ \/ BothSupplied(req.resume, req.resumeText)
        \/ BothSupplied(req.jobDescription, req.jobDescriptionText)
        \/ NeitherSupplied(req.resume, req.resumeText)
        \/ NeitherSupplied(req.jobDescription, req.jobDescriptionText))
    => /\ ~ReachedEndpoint
       /\ pc = "done" => response.status # 200

\* a text that is there and empty after trimming
WhitespaceOnly(t) == t.some /\ strip(t.v) = <<>>

\* what lines 169-174 and 177-182 do with a file when the text is absent
AsIfAbsent(file) == Extraction(file)

\* C12: a side given a whitespace-only text plus a file F is handled as the
\* same side given no text plus F: F is extracted once, the side's text is
\* what F extracts to, and when the extraction raises the request fails with
\* that error.
C12_BlankTextIsAbsent ==
    /\ (/\ pc \notin {"idle", "unauthorized", "resume"}
        /\ req.resume # NoFile /\ WhitespaceOnly(req.resumeText))
       => /\ extractions.resume = 1
          /\ IF AsIfAbsent(req.resume).ok
             THEN resume_text = Some(AsIfAbsent(req.resume).text)
             ELSE pc = "done" /\ response = Failed(handler(AsIfAbsent(req.resume).exc))
    /\ (/\ pc \notin {"idle", "unauthorized", "resume", "job_description"}
        /\ ~ExtractionRaises(req.resume, req.resumeText)
        /\ req.jobDescription # NoFile /\ WhitespaceOnly(req.jobDescriptionText))
       => /\ extractions.job_description = 1
          /\ IF AsIfAbsent(req.jobDescription).ok
             THEN job_description_text = Some(AsIfAbsent(req.jobDescription).text)
             ELSE /\ pc = "done"
                  /\ response = Failed(handler(AsIfAbsent(req.jobDescription).exc))

\* the two retry triggers
IsRetryTrigger(r) == Is503(r) \/ r = Timeout

TimedOut == Exc("Exception", <<"LLM API request timed out after multiple retries.">>)

\* C13: a non-final attempt answered with 503 or timing out goes to the
\* backoff sleep, and the sleep (unless the task is cancelled in it) is
\* followed by the next attempt; the two triggers count on one counter, so
\* the sleep after the k-th call lasts 2^(k-1) whatever mix came before, and
\* a timeout of the 5th call fails the invocation with no further call.
C13_RetryOn503AndTimeout ==
    /\ [](/\ (IsRetryTrigger(last) /\ calls < 5 /\ pc # "cancelled") =>
                /\ pc = "sleep"
                /\ attempt = calls - 1
                /\ backoff_time = pow2(calls - 1)
          /\ pc \in {"post", "await"} => attempt < 5
          /\ pc = "post" => attempt = calls
          /\ (last = Timeout /\ calls = 5) =>
                /\ pc = "done"
                /\ raised = TimedOut
                /\ response.status = 500)
    /\ [][(pc = "sleep" /\ pc' # "cancelled") =>
              /\ pc' = "post"
              /\ attempt' = attempt + 1
              /\ sleeps' = Append(sleeps, backoff_time)
              /\ calls' = calls]_vars
    /\ [][(pc = "done") => (calls' = calls /\ pc' = "done")]_vars

C13_Witness ==
    /\ pc = "done" /\ calls = 5 /\ last = Timeout /\ n503 = 4
    /\ sleeps = <<1, 2, 4, 8>>

\* a file whose declared content type is not recognised, or whose bytes are
\* not what the declared type says
Unextractable(file) ==
    LET ct == IF file.content_type = "" THEN PLAIN ELSE file.content_type
    IN  \/ ct \notin {PDF, DOCX, MSWORD, PLAIN}
        \/ ct = PDF /\ file.format # "pdf"
        \/ ct \in {DOCX, MSWORD} /\ file.format # "docx"
        \/ ct = PLAIN /\ file.format # "utf8"

\* the side's file is the input (no text came with it) and cannot be extracted
FailsExtraction(file, text) == file # NoFile /\ ~Truthy(text) /\ Unextractable(file)

\* C14: when the extraction of either side's file fails, screen_candidate
\* fails with that error and without an outbound call; each side's file is
\* extracted at most once and nothing is tried again after the failure.
C14_ExtractionFailureIsFinal ==
    /\ extractions.resume <= 1 /\ extractions.job_description <= 1
    /\ (/\ Entered
        /\ \/ FailsExtraction(req.resume, req.resumeText)
           \/ FailsExtraction(req.jobDescription, req.jobDescriptionText))
       => /\ ~ReachedEndpoint
          /\ pc \in {"resume", "job_description", "done"}
          /\ pc = "done" =>
                /\ response.status = 500
                /\ raised = NoExc
                /\ IF FailsExtraction(req.resume, req.resumeText)
                   THEN /\ extractions = [resume |-> 1, job_description |-> 0]
                        /\ response = Failed(handler(Extraction(req.resume).exc))
                   ELSE /\ extractions.job_description = 1
                        /\ response = Failed(handler(Extraction(req.jobDescription).exc))

C14_Witness ==
    /\ pc = "done"
    /\ extractions = [resume |-> 1, job_description |-> 1]
    /\ FailsExtraction(req.jobDescription, req.jobDescriptionText)
    /\ req.jobDescription.content_type = "image/png"
    /\ calls = 0

ConfigurationError ==
    Exc("Exception", <<"GEMINI_API_KEY environment variable not set.">>)

\* call_llm_screening was called: both texts passed the validation
Invoked ==
    /\ pc \notin {"idle", "unauthorized", "resume", "job_description", "validate"}
    /\ ExtractionExc = NoExc
    /\ validate_inputs(resume_text, job_description_text) = NoExc

\* C15: with an empty API credential call_llm_screening fails with the
\* configuration error before any outbound call, whatever the two texts are.
C15_MissingKeyFailsBeforeCall ==
    GEMINI_API_KEY = <<>> =>
        /\ calls = 0 /\ clients = 0 /\ sleeps = <<>>
        /\ pc \notin {"post", "await", "sleep", "cancelled"}
        /\ Invoked =>
              /\ pc = "done"
              /\ raised = ConfigurationError
              /\ returned = NoResult
              /\ response = Failed(handler(ConfigurationError))

C15_Witness ==
    /\ GEMINI_API_KEY = <<>> /\ Invoked /\ raised = ConfigurationError
    /\ resume_text = Some(<<"a", "\n", "b">>) /\ job_description_text = Some(<<"c", "v">>)

InRange(score) == score \in 0..100

\* C16: a ScreeningResult that call_llm_screening or screen_candidate
\* returns has its match_score_percent in 0..100, and an attempt answered
\* with 200 and a score outside 0..100 ends the invocation in failure.
C16_ScoreInRange ==
    /\ returned # NoResult => InRange(returned.match_score_percent)
    /\ response.status = 200 => InRange(response.result.match_score_percent)
    /\ (Is200(last) /\ last.doc.form = "payload" /\ ~InRange(last.doc.score)) =>
          /\ pc = "done"
          /\ returned = NoResult
          /\ response.status = 500

\* the request carries a jwt cookie that decodes to a payload
HoldsSession == jwt # NoToken /\ decode_token(jwt).some

\* C17: screen_candidate (and with it every extraction and every outbound
\* call) only runs for a request whose jwt cookie decodes to a payload; any
\* other request is answered 401 and nothing of the pipeline happens.
C17_OnlyWithSession ==
    /\ (Entered \/ extractions # NoExtractions \/ calls > 0) => HoldsSession
    /\ (pc # "idle" /\ ~HoldsSession) =>
          /\ pc = "unauthorized"
          /\ response = Failed(Unauthorized)
          /\ response.status = 401
          /\ extractions = NoExtractions /\ calls = 0 /\ clients = 0
          /\ resume_text = None /\ job_description_text = None
          /\ returned = NoResult /\ raised = NoExc

C17_Witness ==
    /\ pc = "unauthorized" /\ jwt.kind = "expired"
    /\ req.resume # NoFile /\ req.jobDescriptionText = Some(<<"c", "v">>)

\* the invocation of call_llm_screening is over
Ended == pc \in {"done", "cancelled"}

\* C19: a cancellation of the task during the outbound call or during a
\* backoff sleep is not retried: it ends the invocation with the
\* CancelledError, with no further call and no further sleep, and with the
\* client closed.  At most one client is open at any time, one is open while
\* a call is in flight, and none is open once the invocation has ended.
C19_CancellationAndClients ==
    /\ [](/\ clients \in {0, 1}
          /\ pc = "await" => clients = 1
          /\ pc \notin {"await", "sleep"} => clients = 0
          /\ Ended => clients = 0
          /\ (pc = "cancelled" \/ raised = CancelledError) =>
                /\ pc = "cancelled"
                /\ raised = CancelledError
                /\ returned = NoResult
                /\ response = NoResponse)
    /\ [][(pc \in {"await", "sleep"} /\ pc' \notin {"done", "sleep", "post"}) =>
              /\ pc' = "cancelled"
              /\ calls' = calls
              /\ sleeps' = sleeps
              /\ clients' = 0]_vars
    /\ [][pc = "cancelled" =>
              (pc' = "cancelled" /\ calls' = calls /\ sleeps' = sleeps)]_vars

C19_Witness ==
    /\ pc = "cancelled" /\ calls = 3 /\ Is503(last)
    /\ sleeps = <<1, 2>> /\ backoff_time = 4 /\ clients = 0

-----------------------------------------------------------------------------
\* Two invocations of call_llm_screening on one event loop.  Each is a
\* coroutine with its own frame (attempt, backoff_time, client); they take
\* turns at the awaits of lines 89 and 114/127/135.

screeningVars == <<pc, req, resume_text, job_description_text, attempt,
                   backoff_time, calls, sleeps, n503, last, returned, raised,
                   response, jwt, extractions, clients>>

TaskIds == {"t1", "t2"}

\* the frame of an invocation that has not run yet; hist is the replies its
\* own posts were given
NewTask == [pc |-> "start", attempt |-> 0, backoff_time |-> 0, calls |-> 0,
            sleeps |-> <<>>, hist |-> <<>>, returned |-> NoResult,
            raised |-> NoExc, clients |-> 0]

\* what the endpoint answers in these runs
ConcReplies ==
    {Timeout, Http(503, <<>>, NoDoc), Http(400, <<"e", "r", "r">>, NoDoc),
     Http(200, <<>>, Doc("payload", 0, Fields, 100))}

\* a loop counter kept in one place for all invocations
attempt_shared(ts, i) == ts["t1"].attempt

\* line 84: attempt is a local of the invocation's own frame
attempt_of(ts, i) == ts[i].attempt

InitConcurrent ==
    /\ GEMINI_API_KEY \in ApiKeys
    /\ InitScreening
    /\ tasks = [i \in TaskIds |-> NewTask]
    /\ db_up = TRUE
    /\ users = {}
    /\ signups = NoSignups
    /\ logins = NoLogins

\* lines 53-54: the key check at the start of the invocation
TaskStart(i) ==
    /\ tasks[i].pc = "start"
    /\ tasks' = [tasks EXCEPT ![i] =
                    IF key_missing(GEMINI_API_KEY)
                    THEN [@ EXCEPT !.pc = "done",
                                   !.raised = Exc("Exception",
                                       <<"GEMINI_API_KEY environment variable not set.">>)]
                    ELSE [@ EXCEPT !.pc = "post"]]
    /\ UNCHANGED <<GEMINI_API_KEY, screeningVars, authVars>>

\* lines 86-93
TaskPost(i) ==
    /\ tasks[i].pc = "post"
    /\ tasks' = [tasks EXCEPT ![i] =
                    [@ EXCEPT !.pc = "await", !.calls = @ + 1, !.clients = @ + 1]]
    /\ UNCHANGED <<GEMINI_API_KEY, screeningVars, authVars>>

\* the frame t after its pass of the loop body ended in out for the reply r
after_reply(t, r, out, left_with) ==
    LET c == IF left_with THEN aexit(t.clients) ELSE t.clients
        h == Append(t.hist, r)
    IN  IF out.act = "return"
        THEN [t EXCEPT !.pc = "done", !.returned = out.result, !.hist = h, !.clients = c]
        ELSE IF out.act = "raise"
        THEN [t EXCEPT !.pc = "done", !.raised = out.exc, !.hist = h, !.clients = c]
        ELSE [t EXCEPT !.pc = "sleep", !.backoff_time = out.backoff, !.hist = h,
                       !.clients = c]

\* lines 89-137
TaskReply(i) ==
    /\ tasks[i].pc = "await"
    /\ \E r \in ConcReplies :
          LET att == attempt_of(tasks, i)
          IN  tasks' = [tasks EXCEPT ![i] =
                           after_reply(@, r, loop_body(r, att),
                                       try_body(r, att).act # "sleep")]
    /\ UNCHANGED <<GEMINI_API_KEY, screeningVars, authVars>>

\* lines 114, 127, 135 and 84
TaskSleep(i) ==
    /\ tasks[i].pc = "sleep"
    /\ LET t == tasks[i]
           n == next_attempt(attempt_of(tasks, i))
           c == IF t.clients > 0 THEN aexit(t.clients) ELSE t.clients
       IN  tasks' = [tasks EXCEPT ![i] =
              IF n < MAX_RETRIES
              THEN [t EXCEPT !.pc = "post", !.attempt = n, !.clients = c,
                             !.sleeps = Append(t.sleeps, t.backoff_time)]
              ELSE [t EXCEPT !.pc = "done", !.attempt = n, !.clients = c,
                             !.sleeps = Append(t.sleeps, t.backoff_time),
                             !.raised = Exc("Exception",
                                 <<"Maximum retry attempts reached for LLM API.">>)]]
    /\ UNCHANGED <<GEMINI_API_KEY, screeningVars, authVars>>

NextConcurrent ==
    \E i \in TaskIds : TaskStart(i) \/ TaskPost(i) \/ TaskReply(i) \/ TaskSleep(i)

SpecConcurrent == InitConcurrent /\ [][NextConcurrent]_vars

\* One invocation run alone on the replies h, from attempt att with the
\* backoffs b already scheduled: where it stands once h is used up.
RECURSIVE RunAlone(_, _, _)
RunAlone(h, att, b) ==
    IF h = <<>>
    THEN [over |-> FALSE, attempt |-> att, backoffs |-> b,
          returned |-> NoResult, raised |-> NoExc]
    ELSE LET out == loop_body(Head(h), att)
         IN  IF out.act = "sleep" /\ att + 1 < MAX_RETRIES
             THEN RunAlone(Tail(h), att + 1, Append(b, out.backoff))
             ELSE [over |-> TRUE, attempt |-> att, backoffs |-> b,
                   returned |-> out.result, raised |-> out.exc]

Front(q) == SubSeq(q, 1, Len(q) - 1)

\* the frame t is where an invocation run alone on t.hist would be
AsRunAlone(t) ==
    LET R == RunAlone(t.hist, 0, <<>>)
    IN  /\ t.pc = "start" => t = NewTask
        /\ t.pc = "post" =>
              /\ ~R.over /\ t.attempt = R.attempt /\ t.sleeps = R.backoffs
              /\ t.calls = Len(t.hist) /\ t.clients = 0
        /\ t.pc = "await" =>
              /\ ~R.over /\ t.attempt = R.attempt /\ t.sleeps = R.backoffs
              /\ t.calls = Len(t.hist) + 1 /\ t.clients = 1
        /\ t.pc = "sleep" =>
              /\ ~R.over /\ t.attempt = R.attempt - 1
              /\ t.sleeps = Front(R.backoffs)
              /\ t.backoff_time = R.backoffs[Len(R.backoffs)]
              /\ t.calls = Len(t.hist) /\ t.clients <= 1
        /\ (t.pc = "done" /\ t.hist # <<>>) =>
              /\ R.over /\ t.attempt = R.attempt /\ t.sleeps = R.backoffs
              /\ t.returned = R.returned /\ t.raised = R.raised
              /\ t.calls = Len(t.hist) /\ t.clients = 0
        /\ (t.pc = "done" /\ t.hist = <<>>) =>
              /\ key_missing(GEMINI_API_KEY)
              /\ t = [NewTask EXCEPT !.pc = "done",
                                     !.raised = Exc("Exception",
                                        <<"GEMINI_API_KEY environment variable not set.">>)]

\* C18: when two invocations interleave at their awaits, the attempt
\* counter, the backoffs, the number of calls and the outcome of each are
\* those of the invocation run alone on the replies to its own calls, and
\* no step writes module-level state (the settings).
C18_InvocationsIndependent ==
    /\ [](\A i \in TaskIds : AsRunAlone(tasks[i]))
    /\ [][GEMINI_API_KEY' = GEMINI_API_KEY]_vars

\* one invocation is sleeping after a timeout and a 503 while the other has
\* returned a result from its first call
C18_Witness ==
    /\ tasks # NoTasks
    /\ tasks["t1"].pc = "sleep" /\ tasks["t1"].backoff_time = 2
    /\ tasks["t1"].hist = <<Timeout, Http(503, <<>>, NoDoc)>>
    /\ tasks["t2"].pc = "done" /\ tasks["t2"].calls = 1
    /\ tasks["t2"].returned # NoResult

-----------------------------------------------------------------------------
\* POST /api/auth/signup: routes/auth_routes.py 17-27, AuthController.signup
\* (controllers/auth_controller.py 83-115) and the User document
\* (models/user.py).  Requests are served concurrently; each awaits the
\* database at find_one and at insert.

SignupIds == {"s1", "s2"}

Emails == {"test@resumewise.com", "hr@corp.io"}

\* passwords as characters: one of at least 6, one shorter
Passwords == {<<"T", "e", "s", "t", "P", "w">>, <<"p", "w">>}

\* the JSON body of a signup request (test_integration.py 11-15)
Body(email, password) == [email |-> email, password |-> password, name |-> "Test User"]

\* SignupRequest (auth_controller.py 13-22): email and password are kept,
\* whatever else the body holds is dropped; a password under 6 characters
\* is refused
SignupRequest(body) ==
    IF Len(body.password) < 6
    THEN [ok |-> FALSE, data |-> [email |-> "", password |-> <<>>]]
    ELSE [ok |-> TRUE, data |-> [email |-> body.email, password |-> body.password]]

\* app/utils/auth.py, hash_password: a digest that is not the password
hash_password(password) == <<"$2b$">> \o password

\* a User whose name may be left out
UserRequired_without_name == {"email", "password"}

\* models/user.py 15-19: the fields declared with Field(...)
UserRequired == {"email", "password", "name"}

\* User(**given): pydantic refuses a document with a required field missing
User(given) ==
    IF UserRequired \subseteq DOMAIN given
    THEN [ok |-> TRUE, doc |-> given, exc |-> NoExc]
    ELSE [ok |-> FALSE, doc |-> given,
          exc |-> Exc("ValidationError",
                      <<"1 validation error for User", "Field required">>)]

\* insert(): the document is stored under an id of its own
inserted_document(doc, id) == ("id" :> id) @@ doc

\* a document registered earlier
StoredUser == [id |-> "u0", email |-> "test@resumewise.com",
               password |-> hash_password(<<"T", "e", "s", "t", "P", "w">>),
               name |-> "Test User"]

\* a request slot: what it carries, where it stands, what it was answered,
\* whether a database call of it failed, whether it inserted a document
NoSignup == [pc |-> "idle", body |-> Body("", <<>>), status |-> 0,
             detail |-> <<>>, db_error |-> FALSE, inserted |-> FALSE]

Answered(s, status, detail) == [s EXCEPT !.pc = "done", !.status = status, !.detail = detail]

\* the route has no status_code, so a returned dict is answered 200
RegistrationSuccessful(s) == Answered(s, 200, <<"Registration successful">>)

Conflict(s) ==
    Answered(s, 409, <<"This email is already registered. Please use a different email or log in.">>)

\* an exception that no handler catches leaves the application as a 500
Unhandled(s) == Answered(s, 500, <<"Internal Server Error">>)

Unprocessable(s) == Answered(s, 422, <<"Password must be at least 6 characters">>)

InitAuth ==
    /\ GEMINI_API_KEY \in ApiKeys
    /\ InitScreening
    /\ tasks = NoTasks
    /\ db_up \in BOOLEAN
    /\ users \in {{}, {StoredUser}}
    /\ signups = [i \in SignupIds |-> NoSignup]
    /\ logins = NoLogins

\* the request arrives and its body is validated into a SignupRequest
SignupArrive(i) ==
    /\ signups[i].pc = "idle"
    /\ \E e \in Emails, p \in Passwords :
          LET s == [signups[i] EXCEPT !.body = Body(e, p)]
          IN  signups' = [signups EXCEPT ![i] =
                            IF SignupRequest(s.body).ok
                            THEN [s EXCEPT !.pc = "find"]
                            ELSE Unprocessable(s)]
    /\ UNCHANGED <<GEMINI_API_KEY, screeningVars, concVars, db_up, users, logins>>

\* lines 98-103: find_one, and the 409 when it finds a user
SignupFind(i) ==
    /\ signups[i].pc = "find"
    /\ LET s == signups[i]
           data == SignupRequest(s.body).data
       IN  signups' = [signups EXCEPT ![i] =
              IF ~db_up THEN Unhandled([s EXCEPT !.db_error = TRUE])
              ELSE IF \E u \in users : u.email = data.email THEN Conflict(s)
              ELSE [s EXCEPT !.pc = "insert"]]
    /\ UNCHANGED <<GEMINI_API_KEY, screeningVars, concVars, db_up, users, logins>>

\* lines 106-115: hash the password, build the User, insert it, answer
SignupInsert(i) ==
    /\ signups[i].pc = "insert"
    /\ LET s == signups[i]
           data == SignupRequest(s.body).data
           new_user == User([email |-> data.email,
                             password |-> hash_password(data.password)])
       IN  IF ~new_user.ok
           THEN /\ signups' = [signups EXCEPT ![i] = Unhandled(s)]
                /\ UNCHANGED users
           ELSE IF ~db_up
           THEN /\ signups' = [signups EXCEPT ![i] =
                                 Unhandled([s EXCEPT !.db_error = TRUE])]
                /\ UNCHANGED users
           ELSE /\ users' = users \cup {inserted_document(new_user.doc, i)}
                /\ signups' = [signups EXCEPT ![i] =
                                 RegistrationSuccessful([s EXCEPT !.inserted = TRUE])]
    /\ UNCHANGED <<GEMINI_API_KEY, screeningVars, concVars, db_up, logins>>

\* MongoDB becomes unreachable, or reachable again
DatabaseChange ==
    /\ db_up' = ~db_up
    /\ UNCHANGED <<GEMINI_API_KEY, screeningVars, concVars, users, signups, logins>>

NextAuth ==
    \/ \E i \in SignupIds : SignupArrive(i) \/ SignupFind(i) \/ SignupInsert(i)
    \/ DatabaseChange

SpecAuth == InitAuth /\ [][NextAuth]_vars

WellFormed(s) == s.pc # "idle" /\ SignupRequest(s.body).ok

\* C20: a well-formed signup request is answered 201, 409 or 500; 500 only
\* when a database call of the request failed; after a 201 a user document
\* with the request's email exists and the request inserted it; a request
\* answered 409 inserted nothing.
C20_SignupOutcomes ==
    \A i \in DOMAIN signups :
        LET s == signups[i]
        IN  (WellFormed(s) /\ s.pc = "done") =>
               /\ s.status \in {201, 409, 500}
               /\ s.status = 500 => s.db_error
               /\ s.status = 201 =>
                     /\ s.inserted
                     /\ \E u \in users : u.email = s.body.email
               /\ s.status = 409 => ~s.inserted

MaxRetriesReached ==
    Exc("Exception", <<"Maximum retry attempts reached for LLM API.">>)

\* C21: the retry loop never falls through.  A pass of the loop ends in a
\* return, in a raise, or (only while attempt < 4) in a sleep and continue,
\* so the raise of line 139 never happens: neither the invocation nor the
\* response ever carries its error.
C21_LoopNeverFallsThrough ==
    /\ raised # MaxRetriesReached
    /\ response.detail # handler(MaxRetriesReached).msg
    /\ pc = "sleep" => attempt < MAX_RETRIES - 1
    /\ pc \in {"post", "await"} => attempt < MAX_RETRIES
    /\ (pc = "done" /\ calls > 0) =>
          /\ (returned # NoResult) # (raised # NoExc)
          /\ last # NoReply

\* the last pass of the loop (attempt 4) ended in a raise
C21_Witness ==
    /\ pc = "done" /\ attempt = 4 /\ calls = 5 /\ Is503(last)
    /\ raised # NoExc /\ sleeps = <<1, 2, 4, 8>>

-----------------------------------------------------------------------------
\* POST /api/auth/login: routes/auth_routes.py 30-39 and AuthController.login
\* (controllers/auth_controller.py 117-188).  Requests are served
\* concurrently; each awaits the database at its find_one calls.

LoginIds == {"l1", "l2"}

\* the jwt cookie a login request may carry: none, one that does not
\* decode, one in force for a stored user, one in force for nobody stored
LoginCookies == {NoToken, [kind |-> "garbage", email |-> ""],
                 [kind |-> "valid", email |-> "test@resumewise.com"],
                 [kind |-> "valid", email |-> "hr@corp.io"]}

\* LoginRequest (auth_controller.py 25-27)
LoginRequest(email, password) == [email |-> email, password |-> password]

\* app/utils/auth.py, verify_password: the hash is the hash of the password
verify_password(password, hashed) == hashed = hash_password(password)

\* app/utils/auth.py, create_access_token: a token in force for token_data
create_access_token(token_data) == [kind |-> "valid", email |-> token_data.email]

\* User.find_one(User.email == email): the documents it may return
find_one(email) == {u \in users : u.email = email}

NoLogin == [pc |-> "idle", body |-> LoginRequest("", <<>>), cookie |-> NoToken,
            status |-> 0, detail |-> <<>>, user |-> "", set_cookie |-> NoToken]

\* lines 140-146
AlreadyLoggedIn(l, user) ==
    [l EXCEPT !.pc = "done", !.status = 200, !.detail = <<"Already logged in.">>,
              !.user = user.email]

\* lines 166-187
LoginSuccessful(l, user) ==
    [l EXCEPT !.pc = "done", !.status = 200, !.detail = <<"Login successful">>,
              !.user = user.email,
              !.set_cookie = create_access_token([userId |-> user.id,
                                                  email |-> user.email])]

LoginFailed(l, status, detail) ==
    [l EXCEPT !.pc = "done", !.status = status, !.detail = detail]

\* lines 133-136: existing_token and decode_token(existing_token)
has_session(cookie) == cookie # NoToken /\ decode_token(cookie).some

InitLogin ==
    /\ GEMINI_API_KEY \in ApiKeys
    /\ InitScreening
    /\ tasks = NoTasks
    /\ db_up \in BOOLEAN
    /\ users \in {{}, {StoredUser}}
    /\ signups = NoSignups
    /\ logins = [i \in LoginIds |-> NoLogin]

\* lines 133-136: the request arrives; its cookie decides whether the
\* lookup of line 138 is made
LoginArrive(i) ==
    /\ logins[i].pc = "idle"
    /\ \E e \in Emails, p \in Passwords, c \in LoginCookies :
          logins' = [logins EXCEPT ![i] =
                        [@ EXCEPT !.body = LoginRequest(e, p), !.cookie = c,
                                  !.pc = IF has_session(c) THEN "cookie" ELSE "find"]]
    /\ UNCHANGED <<GEMINI_API_KEY, screeningVars, concVars, db_up, users, signups>>

\* lines 138-146: find_one for the email of the cookie's payload
LoginCookie(i) ==
    /\ logins[i].pc = "cookie"
    /\ LET l == logins[i]
           found == find_one(decode_token(l.cookie).email)
       IN  IF ~db_up
           THEN logins' = [logins EXCEPT ![i] =
                             LoginFailed(l, 500, <<"Internal Server Error">>)]
           ELSE IF found # {}
           THEN \E user \in found :
                   logins' = [logins EXCEPT ![i] = AlreadyLoggedIn(l, user)]
           ELSE logins' = [logins EXCEPT ![i] = [l EXCEPT !.pc = "find"]]
    /\ UNCHANGED <<GEMINI_API_KEY, screeningVars, concVars, db_up, users, signups>>

\* lines 149-187: find_one for the submitted email, verify_password, the
\* token and the cookie
LoginFind(i) ==
    /\ logins[i].pc = "find"
    /\ LET l == logins[i]
           found == find_one(l.body.email)
       IN  IF ~db_up
           THEN logins' = [logins EXCEPT ![i] =
                             LoginFailed(l, 500, <<"Internal Server Error">>)]
           ELSE IF found = {}
           THEN logins' = [logins EXCEPT ![i] =
                   LoginFailed(l, 401, <<"Invalid credentials (User not found).">>)]
           ELSE \E user \in found :
                   logins' = [logins EXCEPT ![i] =
                      IF ~verify_password(l.body.password, user.password)
                      THEN LoginFailed(l, 401,
                              <<"Invalid credentials (Password mismatch).">>)
                      ELSE LoginSuccessful(l, user)]
    /\ UNCHANGED <<GEMINI_API_KEY, screeningVars, concVars, db_up, users, signups>>

NextLogin ==
    \/ \E i \in LoginIds : LoginArrive(i) \/ LoginCookie(i) \/ LoginFind(i)
    \/ DatabaseChange

SpecLogin == InitLogin /\ [][NextLogin]_vars

\* the submitted email and password are those of a stored user
Correct(body) ==
    \E u \in users : u.email = body.email /\ u.password = hash_password(body.password)

Succeeded(l) == l.pc = "done" /\ l.status = 200

\* C23: a login succeeds only when the submitted email and password match
\* a stored user, and it then sets a jwt cookie in force for that user; of
\* two requests carrying the same cookie, one with correct and one with
\* wrong credentials, at most the correct one succeeds.
C23_LoginOnlyWithCredentials ==
    /\ \A i \in DOMAIN logins :
          Succeeded(logins[i]) =>
              /\ Correct(logins[i].body)
              /\ logins[i].user = logins[i].body.email
              /\ logins[i].set_cookie = [kind |-> "valid", email |-> logins[i].body.email]
    /\ \A i, j \in DOMAIN logins :
          (/\ logins[i].cookie = logins[j].cookie
           /\ logins[i].pc # "idle" /\ logins[j].pc # "idle"
           /\ Correct(logins[i].body) /\ ~Correct(logins[j].body))
          => ~(Succeeded(logins[i]) /\ Succeeded(logins[j]))

====
